---- MODULE Spec2Model ----
(***************************************************************************)
(* FishTokenizer (src/transformers/models/fish/tokenization_fish.py): the  *)
(* special-token registry built above a tiktoken merge table, the chunking *)
(* of the input text, and encode / decode through tiktoken's Encoding.     *)
(*                                                                         *)
(* A Python str is a sequence of code points (naturals); bytes are a       *)
(* sequence of 0..255.  TLA+ string literals are used only to write the    *)
(* source's literals down and are converted with Chars.                    *)
(*                                                                         *)
(* Reading of the source.  The file as committed does not load (line 65    *)
(* lacks its colon, load_tiktoken_bpe and tokenize take no self, and       *)
(* convert_tokens_to_ids passes the unbound name subs to encode_batch).    *)
(* The model follows the bodies of the methods: load_tiktoken_bpe and      *)
(* tokenize are functions of their one argument, and subs is the list the  *)
(* method receives (its tokens parameter), which is the chunk list that    *)
(* encode hands over.                                                      *)
(***************************************************************************)
EXTENDS Integers, Sequences, FiniteSets, TLC

(***************************************************************************)
(* Bounds of the model.                                                    *)
(***************************************************************************)
\* TIKTOKEN_MAX_ENCODE_CHARS (line 24) is 400_000 in the source.  The model
\* scales it down so that texts longer than one chunk are within reach of
\* the checker; it stays at least as long as the longest special token.
TIKTOKEN_MAX_ENCODE_CHARS == 17
\* texts handed to encode are concatenations of at most MaxPieces pieces
MaxPieces == 2
\* id lists handed to decode have at most MaxIds entries
MaxIds == 2
\* concurrent callers sharing the one instance
NumCallers == 2

(***************************************************************************)
(* Strings, bytes, and the conversions between them.                       *)
(***************************************************************************)
Range(s) == {s[i] : i \in 1..Len(s)}

\* the printable ASCII characters in code-point order: 32 (space) to 95,
\* and 97 to 126
AsciiLow == " !\"#$%&'()*+,-./0123456789:;<=>?@ABCDEFGHIJKLMNOPQRSTUVWXYZ[\\]^_"
AsciiHigh == "abcdefghijklmnopqrstuvwxyz{|}~"

IndexIn(table, ch) == CHOOSE i \in 1..Len(table) : SubSeq(table, i, i) = ch

\* ord() of the one-character string ch
Ord(ch) ==
    IF \E i \in 1..Len(AsciiLow) : SubSeq(AsciiLow, i, i) = ch
    THEN 31 + IndexIn(AsciiLow, ch)
    ELSE 96 + IndexIn(AsciiHigh, ch)

\* the code points of a string literal
Chars(str) == [i \in 1..Len(str) |-> Ord(SubSeq(str, i, i))]

LF == 10
CR == 13
ReplacementChar == 65533

RECURSIVE Flatten(_)
\* sum(lists, start=[]): the concatenation of a sequence of sequences
Flatten(ss) == IF ss = <<>> THEN <<>> ELSE Head(ss) \o Flatten(Tail(ss))

\* str.encode("utf-8") of one code point
Utf8Char(c) ==
    IF c < 128 THEN <<c>>
    ELSE IF c < 2048 THEN <<192 + (c \div 64), 128 + (c % 64)>>
    ELSE <<224 + (c \div 4096), 128 + ((c \div 64) % 64), 128 + (c % 64)>>

\* str.encode("utf-8")
Utf8(text) == Flatten([i \in 1..Len(text) |-> Utf8Char(text[i])])

IsCont(b) == b >= 128 /\ b < 192

RECURSIVE Utf8DecodeFrom(_, _)
\* bytes.decode("utf-8", errors="replace") from position p: a well-formed
\* sequence gives its code point, a byte that starts none gives U+FFFD
Utf8DecodeFrom(bs, p) ==
    IF p > Len(bs) THEN <<>>
    ELSE LET b == bs[p] IN
         IF b < 128 THEN <<b>> \o Utf8DecodeFrom(bs, p + 1)
         ELSE IF b >= 194 /\ b < 224 /\ p + 1 <= Len(bs) /\ IsCont(bs[p + 1])
              THEN <<(b - 192) * 64 + (bs[p + 1] - 128)>> \o Utf8DecodeFrom(bs, p + 2)
         ELSE IF b >= 224 /\ b < 240 /\ p + 2 <= Len(bs)
                 /\ IsCont(bs[p + 1]) /\ IsCont(bs[p + 2])
                 /\ (b > 224 \/ bs[p + 1] >= 160)
                 /\ (b # 237 \/ bs[p + 1] < 160)
              THEN <<(b - 224) * 4096 + (bs[p + 1] - 128) * 64 + (bs[p + 2] - 128)>>
                   \o Utf8DecodeFrom(bs, p + 3)
         ELSE IF b >= 224 /\ b < 240 /\ p + 1 <= Len(bs) /\ IsCont(bs[p + 1])
                 /\ (b > 224 \/ bs[p + 1] >= 160)
                 /\ (b # 237 \/ bs[p + 1] < 160)
              THEN <<ReplacementChar>> \o Utf8DecodeFrom(bs, p + 2)
         ELSE <<ReplacementChar>> \o Utf8DecodeFrom(bs, p + 1)

Utf8Decode(bs) == Utf8DecodeFrom(bs, 1)

\* the base64 alphabet in value order
B64Alphabet == "ABCDEFGHIJKLMNOPQRSTUVWXYZabcdefghijklmnopqrstuvwxyz0123456789+/"

B64Value(ch) == IndexIn(B64Alphabet, ch) - 1

IsB64Char(ch) == \E i \in 1..Len(B64Alphabet) : SubSeq(B64Alphabet, i, i) = ch

\* the characters of a base64 string that carry data (before the padding)
B64Data(s) ==
    IF Len(s) >= 2 /\ SubSeq(s, Len(s) - 1, Len(s)) = "==" THEN SubSeq(s, 1, Len(s) - 2)
    ELSE IF Len(s) >= 1 /\ SubSeq(s, Len(s), Len(s)) = "=" THEN SubSeq(s, 1, Len(s) - 1)
    ELSE s

\* base64.b64decode accepts s: a multiple of four characters, padded
B64Valid(s) ==
    /\ Len(s) % 4 = 0
    /\ \A i \in 1..Len(B64Data(s)) : IsB64Char(SubSeq(B64Data(s), i, i))
    /\ Len(s) - Len(B64Data(s)) \in (IF Len(B64Data(s)) % 4 = 0 THEN {0}
                                      ELSE IF Len(B64Data(s)) % 4 = 2 THEN {2}
                                      ELSE IF Len(B64Data(s)) % 4 = 3 THEN {1} ELSE {})

RECURSIVE B64Group(_, _)
\* the bytes of the data characters from position p on, four at a time
B64Group(d, p) ==
    LET v(i) == B64Value(SubSeq(d, p + i, p + i))
        left == Len(d) - p + 1
    IN  IF left <= 0 THEN <<>>
        ELSE IF left = 2 THEN <<v(0) * 4 + (v(1) \div 16)>>
        ELSE IF left = 3 THEN <<v(0) * 4 + (v(1) \div 16), (v(1) % 16) * 16 + (v(2) \div 4)>>
        ELSE <<v(0) * 4 + (v(1) \div 16), (v(1) % 16) * 16 + (v(2) \div 4),
               (v(2) % 4) * 64 + v(3)>> \o B64Group(d, p + 4)

\* base64.b64decode
b64decode(s) == B64Group(B64Data(s), 1)

IsDigitStr(s) == Len(s) >= 1 /\ \A i \in 1..Len(s) : Ord(SubSeq(s, i, i)) \in 48..57

RECURSIVE ParseInt(_)
\* int() of a string of decimal digits
ParseInt(s) ==
    IF Len(s) = 0 THEN 0
    ELSE 10 * ParseInt(SubSeq(s, 1, Len(s) - 1)) + (Ord(SubSeq(s, Len(s), Len(s))) - 48)

RECURSIVE SplitFrom(_, _, _)
\* str.split(): the fields of a line between runs of blanks
SplitFrom(line, p, cur) ==
    IF p > Len(line) THEN (IF cur = "" THEN <<>> ELSE <<cur>>)
    ELSE IF SubSeq(line, p, p) = " "
         THEN (IF cur = "" THEN <<>> ELSE <<cur>>) \o SplitFrom(line, p + 1, "")
         ELSE SplitFrom(line, p + 1, cur \o SubSeq(line, p, p))

Split(line) == SplitFrom(line, 1, "")

\* the digits of str(i), i >= 0
DigitStr == <<"0", "1", "2", "3", "4", "5", "6", "7", "8", "9">>

RECURSIVE Decimal(_)
Decimal(i) == IF i < 10 THEN DigitStr[i + 1] ELSE Decimal(i \div 10) \o DigitStr[(i % 10) + 1]

(***************************************************************************)
(* The special tokens (lines 26-63).                                       *)
(***************************************************************************)
BOS_TOKEN == Chars("<|begin_of_text|>")
EOS_TOKEN == Chars("<|end_of_text|>")
PAD_TOKEN == Chars("<|pad|>")
IM_START_TOKEN == Chars("<|im_start|>")
IM_END_TOKEN == Chars("<|im_end|>")

MODALITY_TEXT_TOKEN == Chars("<|text|>")
MODALITY_VOICE_TOKEN == Chars("<|voice|>")
MODALITY_INTERLEAVE_TOKEN == Chars("<|interleave|>")

NumPlaceholder == 4
PLACEHOLDER_TOKEN == [i \in 1..NumPlaceholder |-> Chars("<|placeholder:" \o Decimal(i - 1) \o "|>")]

NumSemantic == 1024
\* SEMANTIC_TOKEN_TEMPLATE.format(i=i)
SEMANTIC_TOKEN_TEMPLATE(i) == Chars("<|semantic:" \o Decimal(i) \o "|>")
\* the list built with range(1, 1025) in place of range(1024)
SEMANTIC_TOKENS_FROM_ONE == [i \in 1..NumSemantic |-> SEMANTIC_TOKEN_TEMPLATE(i)]

\* SEMANTIC_TOKENS[i + 1] is the source's SEMANTIC_TOKENS[i]
SEMANTIC_TOKENS == [i \in 1..NumSemantic |-> SEMANTIC_TOKEN_TEMPLATE(i - 1)]

ALL_SPECIAL_TOKENS ==
    << BOS_TOKEN, EOS_TOKEN, PAD_TOKEN, IM_START_TOKEN, IM_END_TOKEN,
       PLACEHOLDER_TOKEN[1], PLACEHOLDER_TOKEN[2], PLACEHOLDER_TOKEN[3], PLACEHOLDER_TOKEN[4],
       MODALITY_TEXT_TOKEN, MODALITY_VOICE_TOKEN, MODALITY_INTERLEAVE_TOKEN >>
    \o SEMANTIC_TOKENS

(***************************************************************************)
(* Model files: the lines of a tokenizer.tiktoken file.                    *)
(***************************************************************************)
\* h, e, l, o, he, llo, hello with ranks 0..6
HelloFile ==
    << "aA== 0", "ZQ== 1", "bA== 2", "bw== 3", "aGU= 4", "bGxv 5", "aGVsbG8= 6" >>

\* the same entries, the last one with rank 9: the ranks leave a gap
GapFile ==
    << "aA== 0", "ZQ== 1", "bA== 2", "bw== 3", "aGU= 4", "", "bGxv 5", "aGVsbG8= 9" >>

\* the bytes of the characters the model's texts are written in, then the
\* merges he, ll, lo, hell, " it", pa, ?!, |>, <| ; ranks 0..50
RichFile ==
    << "Cg== 0", "IA== 1", "IQ== 2", "Jw== 3", "LA== 4", "MA== 5", "MQ== 6", "Mg== 7",
       "Mw== 8", "NA== 9", "NQ== 10", "Ng== 11", "Nw== 12", "OA== 13", "OQ== 14",
       "Og== 15", "PA== 16", "Pg== 17", "Pw== 18", "Xw== 19", "YQ== 20", "Yg== 21",
       "Yw== 22", "ZA== 23", "ZQ== 24", "Zg== 25", "Zw== 26", "aA== 27", "aQ== 28",
       "bA== 29", "bQ== 30", "bg== 31", "bw== 32", "cA== 33", "cg== 34", "cw== 35",
       "dA== 36", "dg== 37", "eA== 38", "fA== 39", "qQ== 40", "ww== 41", "",
       "aGU= 42", "bGw= 43", "bG8= 44", "aGVsbA== 45", "IGl0 46", "cGE= 47",
       "PyE= 48", "fD4= 49", "PHw= 50" >>

\* a line of three fields: line.split() does not unpack into token, rank
BadFieldsFile == << "aA== 0", "ZQ== 1 1" >>

\* two byte sequences with one rank: tiktoken's Encoding refuses the table
DupRankFile == << "aA== 0", "ZQ== 0" >>

ModelFiles == {HelloFile, GapFile, RichFile, BadFieldsFile, DupRankFile}

(***************************************************************************)
(* Construction (lines 66-93).                                             *)
(***************************************************************************)
\* the lines load_tiktoken_bpe does not skip
DataLines(file) == SelectSeq(file, LAMBDA line : line # "")

\* line.split() unpacks into two fields, b64decode and int() accept them
LineOk(line) ==
    /\ Len(Split(line)) = 2
    /\ B64Valid(Split(line)[1])
    /\ IsDigitStr(Split(line)[2])

\* load_tiktoken_bpe returns (it raises on a line it cannot parse)
LoadOk(file) == \A i \in 1..Len(DataLines(file)) : LineOk(DataLines(file)[i])

\* load_tiktoken_bpe: data[b64decode(token)] = int(rank), a later line for
\* the same token overwriting an earlier one
load_tiktoken_bpe(file) ==
    LET lines == DataLines(file)
        tok(i) == b64decode(Split(lines[i])[1])
        keys == {tok(i) : i \in 1..Len(lines)}
        last(k) == CHOOSE i \in 1..Len(lines) :
                      /\ tok(i) = k
                      /\ \A j \in (i + 1)..Len(lines) : tok(j) # k
    IN  [k \in keys |-> ParseInt(Split(lines[last(k)])[2])]

\* tiktoken's Encoding builds the reverse table and insists that it has as
\* many entries as the table: no two byte sequences share a rank
EncodingOk(ranks) ==
    Cardinality({ranks[k] : k \in DOMAIN ranks}) = Cardinality(DOMAIN ranks)

\* special_token_begin (line 68)
special_token_begin(ranks) == Cardinality(DOMAIN ranks)

\* the map built with enumerate(ALL_SPECIAL_TOKENS, start=1)
SpecialTokensWithIdsFromOne(ranks) ==
    [t \in Range(ALL_SPECIAL_TOKENS) |->
        special_token_begin(ranks)
        + (CHOOSE i \in 1..Len(ALL_SPECIAL_TOKENS) :
              /\ ALL_SPECIAL_TOKENS[i] = t
              /\ \A j \in (i + 1)..Len(ALL_SPECIAL_TOKENS) : ALL_SPECIAL_TOKENS[j] # t)]

\* {token: special_token_begin + i for i, token in enumerate(ALL_SPECIAL_TOKENS)}
\* (lines 69-71): a dict, so a token listed twice keeps its last index
SpecialTokensWithIds(ranks) ==
    [t \in Range(ALL_SPECIAL_TOKENS) |->
        special_token_begin(ranks)
        + (CHOOSE i \in 1..Len(ALL_SPECIAL_TOKENS) :
              /\ ALL_SPECIAL_TOKENS[i] = t
              /\ \A j \in (i + 1)..Len(ALL_SPECIAL_TOKENS) : ALL_SPECIAL_TOKENS[j] # t)
        - 1]

\* lines 72-75; the key i + 1 stands for the source's semantic index i
SemanticIdToTokenId(special) == [i \in 1..Len(SEMANTIC_TOKENS) |-> special[SEMANTIC_TOKENS[i]]]

VARIABLES
    mergeable_ranks,               \* tkt_model's merge table: bytes -> rank
    all_special_tokens_with_ids,   \* token string -> id
    semantic_id_to_token_id,       \* semantic index -> id
    semantic_begin_id,
    semantic_end_id,
    calls                          \* per caller: the call it is in, or its last one

fields == <<mergeable_ranks, all_special_tokens_with_ids, semantic_id_to_token_id,
            semantic_begin_id, semantic_end_id>>
vars == <<mergeable_ranks, all_special_tokens_with_ids, semantic_id_to_token_id,
          semantic_begin_id, semantic_end_id, calls>>

\* FishTokenizer.__init__ on the model file
Construct(file) ==
    LET ranks == load_tiktoken_bpe(file)
        special == SpecialTokensWithIds(ranks)
    IN  /\ LoadOk(file) = TRUE
        /\ EncodingOk(ranks)
        /\ mergeable_ranks = ranks
        /\ all_special_tokens_with_ids = special
        /\ semantic_id_to_token_id = SemanticIdToTokenId(special)
        /\ semantic_begin_id = special[SEMANTIC_TOKENS[1]]
        /\ semantic_end_id = special[SEMANTIC_TOKENS[Len(SEMANTIC_TOKENS)]]

(***************************************************************************)
(* The segmenter: FISH_TIKTOKEN_PATTERN (lines 12-23), as the regex engine *)
(* applies it: at each position the first alternative that matches wins.   *)
(* Character classes are given for the Latin-1 code points 0..255.         *)
(***************************************************************************)
Latin1 == 0..255
\* \p{L}
Letters == (65..90) \cup (97..122) \cup {170, 181, 186} \cup (192..214) \cup (216..246)
           \cup (248..255)
\* \p{N}
Numbers == (48..57) \cup {178, 179, 185, 188, 189, 190}
\* \p{P}
Punct == {33, 34, 35, 37, 38, 39, 40, 41, 42, 44, 45, 46, 47, 58, 59, 63, 64, 91, 92, 93,
          95, 123, 125, 161, 167, 171, 182, 183, 187, 191}
\* \s
White == (9..13) \cup {32, 133, 160}
\* [\r\n]
Newlines == {LF, CR}
\* [^\r\n\p{L}\p{N}]
NotNewlineLetterNumber == Latin1 \ (Newlines \cup Letters \cup Numbers)
\* [^\s\p{L}\p{N}]
NotWhiteLetterNumber == Latin1 \ (White \cup Letters \cup Numbers)
\* \S
NotWhite == Latin1 \ White

RECURSIVE RunLen(_, _, _)
\* how many characters from position p on lie in class
RunLen(s, p, class) ==
    IF p <= Len(s) /\ s[p] \in class THEN 1 + RunLen(s, p + 1, class) ELSE 0

In(s, p, class) == p <= Len(s) /\ s[p] \in class

\* (?i:...): ASCII case folding of a code point
Fold(c) == IF c \in 65..90 THEN c + 32 ELSE c

Contractions ==
    << Chars("'s"), Chars("'t"), Chars("'re"), Chars("'ve"), Chars("'m"), Chars("'ll"),
       Chars("'d") >>

StartsWithFolded(s, p, lit) ==
    /\ p + Len(lit) - 1 <= Len(s)
    /\ \A i \in 1..Len(lit) : Fold(s[p + i - 1]) = lit[i]

\* (?i:'s|'t|'re|'ve|'m|'ll|'d)
Alt1(s, p) ==
    LET hits == {i \in 1..Len(Contractions) : StartsWithFolded(s, p, Contractions[i])}
    IN  IF hits = {} THEN 0
        ELSE Len(Contractions[CHOOSE i \in hits : \A j \in hits : i <= j])

\* \p{P}
Alt2(s, p) == IF In(s, p, Punct) THEN 1 ELSE 0

\* [^\r\n\p{L}\p{N}]?\p{L}+
Alt3(s, p) ==
    IF In(s, p, NotNewlineLetterNumber) /\ In(s, p + 1, Letters)
    THEN 1 + RunLen(s, p + 1, Letters)
    ELSE RunLen(s, p, Letters)

\* \p{N}
Alt4(s, p) == IF In(s, p, Numbers) THEN 1 ELSE 0

\* " ?[^\s\p{L}\p{N}]+[\r\n]*"
Alt5(s, p) ==
    LET q == IF In(s, p, {32}) /\ In(s, p + 1, NotWhiteLetterNumber) THEN p + 1 ELSE p
        n == RunLen(s, q, NotWhiteLetterNumber)
    IN  IF n = 0 THEN 0 ELSE (q - p) + n + RunLen(s, q + n, Newlines)

\* \s*[\r\n]+ : \s* gives back until a newline follows it, so the match ends
\* with the last newline of the run of white space
Alt6(s, p) ==
    LET n == RunLen(s, p, White)
        nl == {k \in 1..n : s[p + k - 1] \in Newlines}
    IN  IF nl = {} THEN 0 ELSE CHOOSE k \in nl : \A j \in nl : j <= k

\* \s+(\?!\S) : white space, the two characters ?!, and one that is not white
Alt7(s, p) ==
    LET n == RunLen(s, p, White)
    IN  IF n >= 1 /\ In(s, p + n, {63}) /\ In(s, p + n + 1, {33}) /\ In(s, p + n + 2, NotWhite)
        THEN n + 3 ELSE 0

\* \s+
Alt8(s, p) == RunLen(s, p, White)

\* the first of the alternatives' match lengths that is not 0 (0: none)
FirstMatch(alts) ==
    LET hits == {i \in 1..Len(alts) : alts[i] > 0}
    IN  IF hits = {} THEN 0 ELSE alts[CHOOSE i \in hits : \A j \in hits : i <= j]

\* the length of the pattern's match at position p (0: none)
MatchLen(s, p) ==
    FirstMatch(<<Alt1(s, p), Alt2(s, p), Alt3(s, p), Alt4(s, p), Alt5(s, p), Alt6(s, p),
                 Alt7(s, p), Alt8(s, p)>>)

RECURSIVE SegmentFrom(_, _)
RECURSIVE SegmentStep(_, _, _)
\* regex.find_iter: the matches from position p on
SegmentFrom(s, p) == IF p > Len(s) THEN <<>> ELSE SegmentStep(s, p, MatchLen(s, p))

\* a match of n characters at p is the next piece; a character at which no
\* alternative matches is skipped
SegmentStep(s, p, n) ==
    IF n = 0 THEN SegmentFrom(s, p + 1)
    ELSE <<SubSeq(s, p, p + n - 1)>> \o SegmentFrom(s, p + n)

Segment(s) == SegmentFrom(s, 1)

(***************************************************************************)
(* tiktoken's byte pair encoding over the merge table (lines 79-84).       *)
(***************************************************************************)
\* stands for the rank of a byte sequence the table does not hold
NoRank == -1

RankOf(ranks, bytes) == IF bytes \in DOMAIN ranks THEN ranks[bytes] ELSE NoRank

RECURSIVE BytePairMerge(_, _)
\* merge the adjacent pair of lowest rank, the leftmost one on a tie, until
\* no adjacent pair has a rank
BytePairMerge(ranks, parts) ==
    LET pairs == {i \in 1..(Len(parts) - 1) : (parts[i] \o parts[i + 1]) \in DOMAIN ranks}
        rank(i) == ranks[parts[i] \o parts[i + 1]]
    IN  IF pairs = {} THEN parts
        ELSE LET i == CHOOSE a \in pairs :
                        \A b \in pairs : rank(a) < rank(b) \/ (rank(a) = rank(b) /\ a <= b)
             IN  BytePairMerge(ranks,
                     SubSeq(parts, 1, i - 1) \o <<parts[i] \o parts[i + 1]>>
                     \o SubSeq(parts, i + 2, Len(parts)))

RanksOf(ranks, parts) == [i \in 1..Len(parts) |-> RankOf(ranks, parts[i])]

\* byte_pair_encode: the ranks of the parts the merging ends with
BytePairEncode(ranks, piece) ==
    RanksOf(ranks, BytePairMerge(ranks, [i \in 1..Len(piece) |-> <<piece[i]>>]))

\* a piece encoded by merging alone, the table not asked for the whole piece
EncodeBytesMergeOnly(ranks, bytes) == BytePairEncode(ranks, bytes)

\* the bytes of one piece of the segmenter: their own rank when the table
\* holds them whole, else their byte pair encoding
EncodeBytes(ranks, bytes) ==
    IF bytes \in DOMAIN ranks THEN <<ranks[bytes]>> ELSE BytePairEncode(ranks, bytes)

EncodePiece(ranks, piece) == EncodeBytes(ranks, Utf8(piece))

EncodePieces(ranks, pieces) ==
    Flatten([i \in 1..Len(pieces) |-> EncodePiece(ranks, pieces[i])])

\* encoding of text in which no special token is looked for
EncodeOrdinary(ranks, s) == EncodePieces(ranks, Segment(s))

(***************************************************************************)
(* tiktoken's Encoding.encode with allowed_special, disallowed_special=()  *)
(* (lines 110-115), and Encoding.decode (line 129).                        *)
(***************************************************************************)
\* what the regex of the special tokens is compiled from: the lengths and
\* the first characters of the registered tokens
SpecialIndex(special) ==
    [lens |-> {Len(t) : t \in DOMAIN special}, firsts |-> {t[1] : t \in DOMAIN special}]

\* the registered special tokens that match the text at position p
SpecialAt(special, index, s, p) ==
    IF s[p] \notin index.firsts THEN {}
    ELSE {SubSeq(s, p, p + n - 1) : n \in {m \in index.lens : p + m - 1 <= Len(s)}}
         \cap DOMAIN special

RECURSIVE NextSpecial(_, _, _, _, _)
\* the first position from p on where an allowed special token matches
\* (0: none); a match that is not allowed is stepped over by one character
NextSpecial(special, index, allowed, s, p) ==
    IF p > Len(s) THEN 0
    ELSE IF SpecialAt(special, index, s, p) \cap allowed # {} THEN p
    ELSE NextSpecial(special, index, allowed, s, p + 1)

RECURSIVE EncodeFrom(_, _, _, _, _, _)
RECURSIVE EncodeUpTo(_, _, _, _, _, _, _)
\* the ids of the text from position start on
EncodeFrom(ranks, special, index, allowed, s, start) ==
    EncodeUpTo(ranks, special, index, allowed, s, start,
               NextSpecial(special, index, allowed, s, start))

RECURSIVE EncodeSpecial(_, _, _, _, _, _, _)
\* the text up to the allowed special token at m is ordinary, the token gives
\* its id, and the encoding goes on behind it; m = 0: the rest is ordinary
EncodeUpTo(ranks, special, index, allowed, s, start, m) ==
    IF m = 0 THEN EncodeOrdinary(ranks, SubSeq(s, start, Len(s)))
    ELSE EncodeOrdinary(ranks, SubSeq(s, start, m - 1))
         \o EncodeSpecial(ranks, special, index, allowed, s, m,
                          CHOOSE x \in SpecialAt(special, index, s, m) \cap allowed : TRUE)

EncodeSpecial(ranks, special, index, allowed, s, m, t) ==
    <<special[t]>> \o EncodeFrom(ranks, special, index, allowed, s, m + Len(t))

\* some special token of the set names occurs in the text
ContainsAt(special, index, names, s) ==
    \E p \in 1..Len(s) : SpecialAt(special, index, s, p) \cap names # {}

ContainsSpecial(special, names, s) == ContainsAt(special, SpecialIndex(special), names, s)

\* what encode gives back: a disallowed special token in the text raises
\* ValueError, a byte sequence without a rank makes the encoder raise
TktResult(raise, ids) ==
    IF raise THEN [err |-> "ValueError", ids |-> <<>>]
    ELSE IF NoRank \in Range(ids) THEN [err |-> "PanicException", ids |-> <<>>]
    ELSE [err |-> "", ids |-> ids]

\* tkt_model.encode(s, allowed_special=allowed, disallowed_special=disallowed):
\* a special token that is neither allowed nor disallowed is ordinary text
TktEncode(ranks, special, allowed, disallowed, s) ==
    TktResult(disallowed # {} /\ ContainsSpecial(special, disallowed, s),
              EncodeFrom(ranks, special, SpecialIndex(special), allowed, s, 1))

\* the bytes of one id: the table's byte sequence of that rank, else the
\* special token with that id; <<NoRank>> stands for an id that is neither
DecodeId(ranks, special, id) ==
    LET k == id - special_token_begin(ranks) + 1
    IN  IF \E b \in DOMAIN ranks : ranks[b] = id
        THEN CHOOSE b \in DOMAIN ranks : ranks[b] = id
        ELSE IF k \in 1..Len(ALL_SPECIAL_TOKENS) /\ ALL_SPECIAL_TOKENS[k] \in DOMAIN special
                /\ special[ALL_SPECIAL_TOKENS[k]] = id
             THEN Utf8(ALL_SPECIAL_TOKENS[k])
        ELSE IF \E t \in DOMAIN special : special[t] = id
             THEN Utf8(CHOOSE t \in DOMAIN special : special[t] = id)
        ELSE <<NoRank>>

\* decode_bytes(tokens), one byte sequence per id
DecodeBytes(ranks, special, ids) == [i \in 1..Len(ids) |-> DecodeId(ranks, special, ids[i])]

\* decode_bytes(tokens).decode("utf-8", errors="replace"); an id that is
\* neither a rank nor a special token's raises KeyError
DecodeResult(parts) ==
    IF <<NoRank>> \in Range(parts) THEN [err |-> "KeyError", text |-> <<>>]
    ELSE [err |-> "", text |-> Utf8Decode(Flatten(parts))]

\* decode with every id's bytes decoded on their own
TktDecodeEach(ranks, special, ids) ==
    IF <<NoRank>> \in Range(DecodeBytes(ranks, special, ids))
    THEN [err |-> "KeyError", text |-> <<>>]
    ELSE [err |-> "",
          text |-> Flatten([i \in 1..Len(ids) |->
                               Utf8Decode(DecodeId(ranks, special, ids[i]))])]

\* tkt_model.decode(tokens)
TktDecode(ranks, special, ids) == DecodeResult(DecodeBytes(ranks, special, ids))

(***************************************************************************)
(* The methods of FishTokenizer (lines 95-129), as functions of the        *)
(* instance's fields and the arguments.                                    *)
(***************************************************************************)
\* allowed_special: bool | set[str]
AllowBool(b) == [kind |-> "bool", flag |-> b, names |-> {}]
AllowSet(S) == [kind |-> "set", flag |-> FALSE, names |-> S]

\* lines 105-108 with the two branches of the bool swapped
AllowedNamesSwapped(special, allowed) ==
    IF allowed.kind = "bool"
    THEN (IF allowed.flag THEN {} ELSE DOMAIN special)
    ELSE allowed.names

\* lines 105-108: True is every registered name, False is no name
AllowedNames(special, allowed) ==
    IF allowed.kind = "bool"
    THEN (IF allowed.flag THEN DOMAIN special ELSE {})
    ELSE allowed.names

\* get_token_id (lines 95-96): all_special_tokens_with_ids[token]
get_token_id(special, token) ==
    IF token \in DOMAIN special
    THEN [err |-> "", id |-> special[token]]
    ELSE [err |-> "KeyError", id |-> NoRank]

\* tokenize with the slice one character too long:
\* text[i : i + TIKTOKEN_MAX_ENCODE_CHARS + 1]
tokenizeOverlapping(text) ==
    LET starts == {i \in 0..(Len(text) - 1) : i % TIKTOKEN_MAX_ENCODE_CHARS = 0}
        Min(a, b) == IF a < b THEN a ELSE b
    IN  [k \in 1..Cardinality(starts) |->
            SubSeq(text, (k - 1) * TIKTOKEN_MAX_ENCODE_CHARS + 1,
                   Min(k * TIKTOKEN_MAX_ENCODE_CHARS + 1, Len(text)))]

\* tokenize (lines 98-102): text[i : i + TIKTOKEN_MAX_ENCODE_CHARS] for i in
\* range(0, len(text), TIKTOKEN_MAX_ENCODE_CHARS)
tokenize(text) ==
    LET starts == {i \in 0..(Len(text) - 1) : i % TIKTOKEN_MAX_ENCODE_CHARS = 0}
        Min(a, b) == IF a < b THEN a ELSE b
    IN  [k \in 1..Cardinality(starts) |->
            SubSeq(text, (k - 1) * TIKTOKEN_MAX_ENCODE_CHARS + 1,
                   Min(k * TIKTOKEN_MAX_ENCODE_CHARS, Len(text)))]

\* the results of a batch: the first text that raises decides the error
BatchResult(out) ==
    LET bad == {i \in 1..Len(out) : out[i].err # ""}
    IN  IF bad = {} THEN [err |-> "", lists |-> [i \in 1..Len(out) |-> out[i].ids]]
        ELSE [err |-> out[CHOOSE i \in bad : \A j \in bad : i <= j].err, lists |-> <<>>]

\* encode_batch: every text of the batch encoded
EncodeBatch(ranks, special, allowed, disallowed, batch) ==
    BatchResult([i \in 1..Len(batch) |-> TktEncode(ranks, special, allowed, disallowed, batch[i])])

\* sum(lists, start=[]) of what encode_batch returned
SumResult(r) == [err |-> r.err, ids |-> Flatten(r.lists)]

\* convert_tokens_to_ids without disallowed_special=set(): tiktoken's default,
\* under which every special token that is not allowed is disallowed
convert_tokens_to_ids_disallowing(ranks, special, tokens, allowed) ==
    SumResult(EncodeBatch(ranks, special, AllowedNames(special, allowed),
                          DOMAIN special \ AllowedNames(special, allowed), tokens))

\* convert_tokens_to_ids (lines 104-115):
\* sum(encode_batch(tokens, allowed_special=..., disallowed_special=set()), start=[])
convert_tokens_to_ids(ranks, special, tokens, allowed) ==
    SumResult(EncodeBatch(ranks, special, AllowedNames(special, allowed), {}, tokens))

\* encode (lines 117-126) on a str
encode_str(ranks, special, text, allowed) ==
    convert_tokens_to_ids(ranks, special, tokenize(text), allowed)

\* encode (lines 117-126) on a list
encode_list(ranks, special, list, allowed) ==
    convert_tokens_to_ids(ranks, special, list, allowed)

\* decode (lines 128-129)
decode(ranks, special, ids) == TktDecode(ranks, special, ids)

(***************************************************************************)
(* Inputs.                                                                 *)
(***************************************************************************)
\* the character of the two bytes 195, 169
EAcute == Utf8Decode(<<195, 169>>)[1]

\* the pieces texts are put together from: ordinary text, one piece of it
\* longer than a chunk, and two literals of special tokens
Pieces ==
    { Chars("hello"), Chars("l"),
      Chars(" it's ") \o <<EAcute>> \o Chars("1,") \o <<LF>>,
      Chars("  ?!x"),
      Chars("hello it's 12, hello"),
      PAD_TOKEN, BOS_TOKEN }

RECURSIVE PieceSeqs(_)
PieceSeqs(n) ==
    IF n = 0 THEN {<<>>}
    ELSE PieceSeqs(n - 1) \cup {Append(ps, x) : ps \in PieceSeqs(n - 1), x \in Pieces}

PieceTexts == {Flatten(ps) : ps \in PieceSeqs(MaxPieces)}

AllTexts == PieceTexts \cup Range(ALL_SPECIAL_TOKENS)

\* the values of allowed_special tried with a text
AllowedChoices(text) ==
    {AllowBool(TRUE), AllowBool(FALSE), AllowSet({}), AllowSet({PAD_TOKEN})}
    \cup {AllowSet({t}) : t \in {text} \cap Range(ALL_SPECIAL_TOKENS)}

\* lists handed to encode in place of a str
TokenLists ==
    { <<>>, <<Chars("hello")>>, <<Chars("hello"), PAD_TOKEN>>,
      <<PAD_TOKEN \o BOS_TOKEN \o Chars("hello")>> }

\* names asked of get_token_id: the registered ones, and some that are not
TokenNames ==
    Range(ALL_SPECIAL_TOKENS)
    \cup {<<>>, Chars("pad"), SEMANTIC_TOKEN_TEMPLATE(NumSemantic)}
    \cup {Chars("semantic:" \o Decimal(i)) : i \in {0, 1, NumSemantic - 1}}

\* ids handed to decode that no encode call returned
SomeIds(ranks) ==
    ({0, 4, special_token_begin(ranks) - 1, special_token_begin(ranks),
      special_token_begin(ranks) + 2, special_token_begin(ranks) + Len(ALL_SPECIAL_TOKENS)}
     \cup {RankOf(ranks, <<195>>)}) \ {NoRank}

RECURSIVE IdLists(_, _)
IdLists(ranks, n) ==
    IF n = 0 THEN {<<>>}
    ELSE IdLists(ranks, n - 1)
         \cup {Append(l, x) : l \in IdLists(ranks, n - 1), x \in SomeIds(ranks)}

(***************************************************************************)
(* Calls.  A caller is idle, or holds the record of the call it made: the  *)
(* arguments, the chunk list, and what the call returned or raised.        *)
(***************************************************************************)
Idle ==
    [ op |-> "none", pc |-> "idle", kind |-> "", text |-> <<>>, list |-> <<>>,
      allowed |-> AllowBool(TRUE), ids |-> <<>>, name |-> <<>>, tokens |-> <<>>,
      ret_ids |-> <<>>, ret_text |-> <<>>, ret_id |-> NoRank, err |-> "",
      from_encode |-> FALSE, src |-> <<>> ]

IsIdle(c) == calls[c].pc = "idle"

\* the record of a call to encode that returned or raised r
EncodeCall(kind, text, list, allowed, tokens, r) ==
    [Idle EXCEPT !.op = "encode", !.pc = "done", !.kind = kind, !.text = text, !.list = list,
                 !.allowed = allowed, !.tokens = tokens, !.ret_ids = r.ids, !.err = r.err]

\* the record of a call to decode that returned or raised r
DecodeCall(ids, from_encode, src, r) ==
    [Idle EXCEPT !.op = "decode", !.pc = "done", !.ids = ids, !.ret_text = r.text,
                 !.err = r.err, !.from_encode = from_encode, !.src = src]

\* the record of a call to get_token_id that returned or raised r
GetTokenIdCall(name, r) ==
    [Idle EXCEPT !.op = "get_token_id", !.pc = "done", !.name = name, !.ret_id = r.id,
                 !.err = r.err]

\* encode(text, allowed_special) with text a str
Encode(c, text, allowed) ==
    /\ IsIdle(c)
    /\ calls' = [calls EXCEPT ![c] =
          EncodeCall("str", text, <<>>, allowed, tokenize(text),
                     encode_str(mergeable_ranks, all_special_tokens_with_ids, text, allowed))]
    /\ UNCHANGED fields

\* encode(text, allowed_special) with text a list
EncodeList(c, list, allowed) ==
    /\ IsIdle(c)
    /\ calls' = [calls EXCEPT ![c] =
          EncodeCall("list", <<>>, list, allowed, <<>>,
                     encode_list(mergeable_ranks, all_special_tokens_with_ids, list, allowed))]
    /\ UNCHANGED fields

\* encode(text, allowed_special) with text neither: the assert of line 124
\* fails
EncodeOther(c, allowed) ==
    /\ IsIdle(c)
    /\ calls' = [calls EXCEPT ![c] =
          EncodeCall("other", <<>>, <<>>, allowed, <<>>,
                     [err |-> "AssertionError", ids |-> <<>>])]
    /\ UNCHANGED fields

\* decode(tokens) on a list of ids of the caller's own
Decode(c, ids) ==
    /\ IsIdle(c)
    /\ calls' = [calls EXCEPT ![c] =
          DecodeCall(ids, FALSE, <<>>,
                     decode(mergeable_ranks, all_special_tokens_with_ids, ids))]
    /\ UNCHANGED fields

\* decode(tokens) on the ids the caller's encode call just returned
DecodeEncoded(c) ==
    /\ calls[c].op = "encode" /\ calls[c].pc = "done"
    /\ calls[c].kind = "str" /\ calls[c].err = ""
    /\ calls' = [calls EXCEPT ![c] =
          DecodeCall(calls[c].ret_ids, TRUE, calls[c].text,
                     decode(mergeable_ranks, all_special_tokens_with_ids, calls[c].ret_ids))]
    /\ UNCHANGED fields

\* get_token_id written with setdefault: a name that is not registered is
\* given the next id and stays in the map
GetTokenIdSetDefault(c, name) ==
    /\ IsIdle(c)
    /\ calls' = [calls EXCEPT ![c] =
          GetTokenIdCall(name, get_token_id(all_special_tokens_with_ids, name))]
    /\ all_special_tokens_with_ids' =
          [t \in DOMAIN all_special_tokens_with_ids \cup {name} |->
              IF t \in DOMAIN all_special_tokens_with_ids
              THEN all_special_tokens_with_ids[t]
              ELSE special_token_begin(mergeable_ranks)
                   + Cardinality(DOMAIN all_special_tokens_with_ids)]
    /\ UNCHANGED <<mergeable_ranks, semantic_id_to_token_id, semantic_begin_id,
                   semantic_end_id>>

\* get_token_id(token)
GetTokenId(c, name) ==
    /\ IsIdle(c)
    /\ calls' = [calls EXCEPT ![c] =
          GetTokenIdCall(name, get_token_id(all_special_tokens_with_ids, name))]
    /\ UNCHANGED fields

\* tokenize(text)
Tokenize(c, text) ==
    /\ IsIdle(c)
    /\ calls' = [calls EXCEPT ![c] =
          [Idle EXCEPT !.op = "tokenize", !.pc = "done", !.text = text,
                       !.tokens = tokenize(text)]]
    /\ UNCHANGED fields

\* the caller takes the result; the call's state is dropped
Return(c) ==
    /\ calls[c].pc = "done"
    /\ calls' = [calls EXCEPT ![c] = Idle]
    /\ UNCHANGED fields

Init ==
    /\ \E file \in ModelFiles : Construct(file)
    /\ calls = [c \in {1} |-> Idle]

DoEncode ==
    \E c \in DOMAIN calls :
        /\ IsIdle(c)
        /\ \E text \in AllTexts : \E allowed \in AllowedChoices(text) :
              Encode(c, text, allowed)

DoEncodeList ==
    \E c \in DOMAIN calls :
        /\ IsIdle(c)
        /\ \E list \in TokenLists : \E allowed \in {AllowBool(TRUE), AllowBool(FALSE)} :
              EncodeList(c, list, allowed)

DoEncodeOther == \E c \in DOMAIN calls : EncodeOther(c, AllowBool(TRUE))

DoDecode ==
    \E c \in DOMAIN calls :
        /\ IsIdle(c)
        /\ \E ids \in IdLists(mergeable_ranks, MaxIds) : Decode(c, ids)

DoDecodeEncoded == \E c \in DOMAIN calls : DecodeEncoded(c)

DoGetTokenId ==
    \E c \in DOMAIN calls : IsIdle(c) /\ \E name \in TokenNames : GetTokenId(c, name)

DoTokenize ==
    \E c \in DOMAIN calls : IsIdle(c) /\ \E text \in PieceTexts : Tokenize(c, text)

DoReturn == \E c \in DOMAIN calls : Return(c)

Next ==
    \/ DoEncode
    \/ DoEncodeList
    \/ DoEncodeOther
    \/ DoDecode
    \/ DoDecodeEncoded
    \/ DoGetTokenId
    \/ DoTokenize
    \/ DoReturn

Spec == Init /\ [][Next]_vars

(***************************************************************************)
(* Concurrent callers sharing the one instance.  A call to encode is two   *)
(* steps here, tokenize and then convert_tokens_to_ids, so that the calls  *)
(* of one caller interleave with those of another.                         *)
(***************************************************************************)
ConcTexts == {PAD_TOKEN, Chars("hello") \o BOS_TOKEN}

ConcIdLists == {<<0>>, <<special_token_begin(mergeable_ranks) + Len(ALL_SPECIAL_TOKENS)>>}

ConcNames == {PAD_TOKEN, Chars("pad")}

\* encode, up to the chunk list (line 119)
EncodeBegin(c, text, allowed) ==
    /\ IsIdle(c)
    /\ calls' = [calls EXCEPT ![c] =
          [Idle EXCEPT !.op = "encode", !.pc = "tokenized", !.kind = "str", !.text = text,
                       !.allowed = allowed, !.tokens = tokenize(text)]]
    /\ UNCHANGED fields

\* the record of the call once convert_tokens_to_ids returned or raised r
FinishCall(e, r) == [e EXCEPT !.pc = "done", !.ret_ids = r.ids, !.err = r.err]

\* encode, from the chunk list to the ids (lines 120-126)
EncodeFinish(c) ==
    /\ calls[c].pc = "tokenized"
    /\ calls' = [calls EXCEPT ![c] =
          FinishCall(calls[c],
                     convert_tokens_to_ids(mergeable_ranks, all_special_tokens_with_ids,
                                           calls[c].tokens, calls[c].allowed))]
    /\ UNCHANGED fields

ConcEncodeBegin ==
    \E c \in DOMAIN calls :
        /\ IsIdle(c)
        /\ \E text \in ConcTexts : \E allowed \in {AllowBool(TRUE), AllowBool(FALSE)} :
              EncodeBegin(c, text, allowed)

ConcEncodeFinish == \E c \in DOMAIN calls : EncodeFinish(c)

ConcDecode == \E c \in DOMAIN calls : IsIdle(c) /\ \E ids \in ConcIdLists : Decode(c, ids)

ConcGetTokenId ==
    \E c \in DOMAIN calls : IsIdle(c) /\ \E name \in ConcNames : GetTokenId(c, name)

ConcTokenize ==
    \E c \in DOMAIN calls : IsIdle(c) /\ \E text \in ConcTexts : Tokenize(c, text)

ConcReturn == \E c \in DOMAIN calls : Return(c)

InitConc ==
    /\ \E file \in ModelFiles : Construct(file)
    /\ calls = [c \in 1..NumCallers |-> Idle]

NextConc ==
    \/ ConcEncodeBegin
    \/ ConcEncodeFinish
    \/ ConcDecode
    \/ ConcGetTokenId
    \/ ConcTokenize
    \/ ConcReturn

SpecConc == InitConc /\ [][NextConc]_vars

(***************************************************************************)
(* Properties.                                                             *)
(***************************************************************************)
\* caller c made a call to op, and the call returned or raised
Returned(c, op) == calls[c].op = op /\ calls[c].pc = "done"

\* caller c called encode on a str
EncodedStr(c) == Returned(c, "encode") /\ calls[c].kind = "str"

\* the ids of the two ranges
RankIds == {mergeable_ranks[b] : b \in DOMAIN mergeable_ranks}
SpecialIds == {all_special_tokens_with_ids[t] : t \in DOMAIN all_special_tokens_with_ids}

\* the size of the merge table
TableSize == Cardinality(DOMAIN mergeable_ranks)

\* the byte sequence the merge table gives the rank id
BytesOfRank(id) == CHOOSE b \in DOMAIN mergeable_ranks : mergeable_ranks[b] = id

\* the merge table ranks every byte of the text
Covered(text) == \A i \in 1..Len(Utf8(text)) : <<Utf8(text)[i]>> \in DOMAIN mergeable_ranks

\* allowed_special is the empty set or False
AllowsNothing(allowed) == allowed \in {AllowSet({}), AllowBool(FALSE)}

C3_IdsInListOrder ==
    /\ (\A c \in DOMAIN calls : IsIdle(c))
       => /\ \A k \in 1..Len(ALL_SPECIAL_TOKENS) :
                all_special_tokens_with_ids[ALL_SPECIAL_TOKENS[k]] = TableSize + (k - 1)
          /\ SpecialIds = TableSize..(TableSize + Len(ALL_SPECIAL_TOKENS) - 1)
          /\ Cardinality(DOMAIN all_special_tokens_with_ids) = Len(ALL_SPECIAL_TOKENS)
    /\ \A c \in DOMAIN calls :
          Returned(c, "get_token_id")
          => /\ calls[c].name = BOS_TOKEN => calls[c].ret_id = TableSize
             /\ \A k \in 1..Len(ALL_SPECIAL_TOKENS) :
                   calls[c].name = ALL_SPECIAL_TOKENS[k]
                   => calls[c].err = "" /\ calls[c].ret_id = TableSize + (k - 1)

\* get_token_id("<|begin_of_text|>") returned 51 on the table of 51 entries
C3_Witness ==
    /\ Returned(1, "get_token_id") /\ calls[1].name = BOS_TOKEN
    /\ TableSize = 51 /\ calls[1].ret_id = 51

\* C4: after construction from a file load_tiktoken_bpe accepts, no id of a
\* special token is a rank of the merge table, and every id encode returns
\* lies in exactly one of the two ranges.
C4_RangesDisjoint ==
    /\ (\A c \in DOMAIN calls : IsIdle(c)) => RankIds \cap SpecialIds = {}
    /\ \A c \in DOMAIN calls :
          (Returned(c, "encode") /\ calls[c].err = "")
          => /\ Range(calls[c].ret_ids) \subseteq (RankIds \cup SpecialIds)
             /\ Range(calls[c].ret_ids) \cap (RankIds \cap SpecialIds) = {}

\* "semantic:i" as the specification writes the name, and as the source's
\* SEMANTIC_TOKEN_TEMPLATE formats it
BareSemanticName == [i \in 0..(NumSemantic - 1) |-> Chars("semantic:" \o Decimal(i))]
SemanticName == [i \in 0..(NumSemantic - 1) |-> SEMANTIC_TOKEN_TEMPLATE(i)]

\* C5, as the specification states it: for every i in 0..1023,
\* get_token_id("semantic:i") returns the id semantic_begin_id + i, which
\* lies within [semantic_begin_id, semantic_end_id].
C5_BareSemanticName ==
    \A c \in DOMAIN calls :
        Returned(c, "get_token_id")
        => \A i \in 0..(NumSemantic - 1) :
              calls[c].name = BareSemanticName[i]
              => /\ calls[c].err = ""
                 /\ calls[c].ret_id = semantic_begin_id + i
                 /\ calls[c].ret_id \in semantic_begin_id..semantic_end_id

\* C5, amended: for every i in 0..1023, get_token_id("<|semantic:i|>")
\* returns the id semantic_begin_id + i, which lies within
\* [semantic_begin_id, semantic_end_id] and is what semantic_id_to_token_id
\* holds for i; semantic_end_id = semantic_begin_id + 1023, so the 1024 ids
\* are pairwise distinct and contiguous.
C5_SemanticIdsContiguous ==
    /\ semantic_end_id = semantic_begin_id + (NumSemantic - 1)
    /\ \A c \in DOMAIN calls :
          Returned(c, "get_token_id")
          => \A i \in 0..(NumSemantic - 1) :
                calls[c].name = SemanticName[i]
                => /\ calls[c].err = ""
                   /\ calls[c].ret_id = semantic_begin_id + i
                   /\ calls[c].ret_id \in semantic_begin_id..semantic_end_id
                   /\ semantic_id_to_token_id[i + 1] = calls[c].ret_id

\* get_token_id("<|semantic:1023|>") returned semantic_end_id
C5_Witness ==
    /\ Returned(1, "get_token_id") /\ calls[1].name = SemanticName[NumSemantic - 1]
    /\ calls[1].err = "" /\ calls[1].ret_id = semantic_end_id

C7_ChunksPartitionText ==
    \A c \in DOMAIN calls :
        Returned(c, "tokenize")
        => /\ Flatten(calls[c].tokens) = calls[c].text
           /\ \A k \in 1..Len(calls[c].tokens) :
                 /\ Len(calls[c].tokens[k]) <= TIKTOKEN_MAX_ENCODE_CHARS
                 /\ k < Len(calls[c].tokens)
                    => Len(calls[c].tokens[k]) = TIKTOKEN_MAX_ENCODE_CHARS

\* tokenize returned three chunks, the last one shorter than the limit
C7_Witness ==
    /\ Returned(1, "tokenize") /\ Len(calls[1].tokens) = 3
    /\ Len(calls[1].tokens[3]) \in 1..(TIKTOKEN_MAX_ENCODE_CHARS - 1)

\* an occurrence of n characters at position p spans a chunk boundary: it
\* starts before the offset k * TIKTOKEN_MAX_ENCODE_CHARS and ends after it
SpansBoundary(p, n) ==
    \E k \in 1..(p + n) :
        p - 1 < k * TIKTOKEN_MAX_ENCODE_CHARS /\ k * TIKTOKEN_MAX_ENCODE_CHARS < p - 1 + n

\* C8: when allowed_special permits a registered special token t and an
\* occurrence of t in the text spans a chunk boundary, encode still emits the
\* id of t.
C8_SpecialAcrossChunkBoundary ==
    \A c \in DOMAIN calls :
        (EncodedStr(c) /\ calls[c].err = "")
        => \A p \in 1..Len(calls[c].text) :
              \A t \in SpecialAt(all_special_tokens_with_ids,
                                 SpecialIndex(all_special_tokens_with_ids),
                                 calls[c].text, p)
                       \cap AllowedNames(all_special_tokens_with_ids, calls[c].allowed) :
                 SpansBoundary(p, Len(t))
                 => all_special_tokens_with_ids[t] \in Range(calls[c].ret_ids)

\* the entries of the table of the example, in the order of their ranks
HelloEntries ==
    << Utf8(Chars("h")), Utf8(Chars("e")), Utf8(Chars("l")), Utf8(Chars("o")),
       Utf8(Chars("he")), Utf8(Chars("llo")), Utf8(Chars("hello")) >>

IsHelloTable ==
    /\ DOMAIN mergeable_ranks = Range(HelloEntries)
    /\ \A i, j \in 1..Len(HelloEntries) :
          i < j => mergeable_ranks[HelloEntries[i]] < mergeable_ranks[HelloEntries[j]]

C10_FieldsNeverWritten == [][fields' = fields]_vars

\* one caller is between tokenize and convert_tokens_to_ids while the call
\* of another has raised
C10_Witness ==
    /\ calls[1].op = "encode" /\ calls[1].pc = "tokenized"
    /\ calls[2].pc = "done" /\ calls[2].err = "KeyError"

====
